---- MODULE Spec2Model ----
(***************************************************************************)
(* carter-emu (alefir/ce): a 4-instruction virtual machine whose program   *)
(* and data share one 256-byte memory.  The model follows src/src/main.rs: *)
(* main (loader), execute (fetch/decode/execute loop) and the Instruction  *)
(* codec (from_byte, from_chars, to_pair, to_byte).                        *)
(*                                                                         *)
(* Vec<u8> memory is a function over 0..len-1 (indices are registers);     *)
(* the source bytes and the decoded instruction list are sequences.        *)
(***************************************************************************)
EXTENDS Integers, Sequences, FiniteSets, TLC

VARIABLES path, overflow_checks, step, pc, err, mem, ins,
          dp, ipl, iph, rpl, rph, cycles, lastOpen, executed,
          jumps, continues, printed,
          c_op, c_seq, c_byte, c_out

\* the codec under test on its own: operation, input group, byte, output
codec == <<c_op, c_seq, c_byte, c_out>>

\* what the observer has done: continuations returned, states printed
observer == <<continues, printed>>

vars == <<path, overflow_checks, step, pc, err, mem, ins,
          dp, ipl, iph, rpl, rph, cycles, lastOpen, executed,
          jumps, continues, printed, codec>>

\* Bound on the number of executed instructions explored per run.
MaxCycles == 1030

\* Bound on the -d count given on the command line.
MaxDebug == 3

----------------------------------------------------------------------------
(* Source alphabet: the bytes matched by Instruction::from_chars.          *)
ChLoopOpen == 91
ChLoopClose == 93
ChIncrement == 43
ChShiftRight == 62
ChNewline == 10
ChOther == 120

MemSize == 256

Instruction == {"LoopOpen", "LoopClose", "Increment", "ShiftRight"}

Rep(c, n) == [i \in 1..n |-> c]

(* The program files the runs are started on (args.path -> fs::read).      *)
FileNames == {"empty", "newline", "plus", "loop", "nested", "shift",
              "incs", "closes1024", "closes1025", "opens1028", "bad",
              "badfirst", "badlast", "incclose", "nonewline", "strayend"}

Files(p) ==
    CASE p = "empty"      -> << >>
      [] p = "newline"    -> <<ChNewline>>
      [] p = "plus"       -> <<ChIncrement, ChNewline>>
      [] p = "loop"       -> <<ChLoopOpen, ChIncrement, ChShiftRight,
                               ChLoopClose, ChNewline>>
      [] p = "nested"     -> <<ChLoopOpen, ChLoopOpen, ChIncrement,
                               ChLoopClose, ChLoopClose, ChNewline>>
      [] p = "shift"      -> Rep(ChShiftRight, 256) \o <<ChIncrement, ChNewline>>
      [] p = "incs"       -> Rep(ChIncrement, 86) \o <<ChNewline>>
      [] p = "closes1024" -> Rep(ChLoopClose, 1024) \o <<ChNewline>>
      [] p = "closes1025" -> Rep(ChLoopClose, 1025) \o <<ChNewline>>
      [] p = "opens1028"  -> Rep(ChLoopOpen, 1028) \o <<ChNewline>>
      [] p = "bad"        -> <<ChIncrement, ChOther, ChIncrement, ChNewline>>
      [] p = "badfirst"   -> <<ChOther, ChIncrement, ChNewline>>
      [] p = "badlast"    -> <<ChIncrement, ChShiftRight, ChOther, ChNewline>>
      [] p = "incclose"   -> <<ChIncrement, ChLoopClose, ChNewline>>
      [] p = "nonewline"  -> <<ChShiftRight, ChIncrement, ChIncrement>>
      [] p = "strayend"   -> <<ChShiftRight, ChIncrement, ChOther>>

----------------------------------------------------------------------------
(* Instruction codec                                                       *)

\* variant of pair_to_inst: the arms for 01 and 10 are exchanged
pair_to_inst_Swapped(b) ==
    CASE b = 0 -> "LoopOpen"
      [] b = 1 -> "Increment"
      [] b = 2 -> "LoopClose"
      [] b = 3 -> "ShiftRight"
      [] OTHER -> "Panic"

\* the match of from_byte: 2-bit code -> instruction
pair_to_inst(b) ==
    CASE b = 0 -> "LoopOpen"
      [] b = 1 -> "LoopClose"
      [] b = 2 -> "Increment"
      [] b = 3 -> "ShiftRight"
      [] OTHER -> "Panic"

\* from_byte: (byte & 0b11000000) >> 6, (byte & 0b00110000) >> 4, ...
from_byte(byte) ==
    [k \in 0..3 |->
        pair_to_inst(CASE k = 0 -> (byte \div 64) % 4
                       [] k = 1 -> (byte \div 16) % 4
                       [] k = 2 -> (byte \div 4) % 4
                       [] k = 3 -> byte % 4)]

\* variant of ValidChar: the arm for '>' is missing
ValidChar_NoShiftRight(c) == c \in {ChLoopOpen, ChLoopClose, ChIncrement}

ValidChar(c) == c \in {ChLoopOpen, ChLoopClose, ChIncrement, ChShiftRight}

\* the match of from_chars, for a byte of the alphabet
char_to_inst(c) ==
    CASE c = ChLoopOpen   -> "LoopOpen"
      [] c = ChLoopClose  -> "LoopClose"
      [] c = ChIncrement  -> "Increment"
      [] c = ChShiftRight -> "ShiftRight"

from_chars(chars) == [i \in 1..Len(chars) |-> char_to_inst(chars[i])]

\* is.get(k): Some(is[k]) or None
get(is, k) == IF k + 1 <= Len(is) THEN is[k + 1] ELSE "None"

to_pair(i) ==
    CASE i = "LoopOpen"   -> 0
      [] i = "LoopClose"  -> 1
      [] i = "Increment"  -> 2
      [] i = "ShiftRight" -> 3
      [] i = "None"       -> 0

\* variant of to_byte: the first instruction goes to the low bits
to_byte_LowFirst(is) ==
    to_pair(get(is, 0)) + to_pair(get(is, 1)) * 4
      + to_pair(get(is, 2)) * 16 + to_pair(get(is, 3)) * 64

\* to_byte: the four pairs occupy disjoint bit fields, so | is +
to_byte(is) ==
    to_pair(get(is, 0)) * 64 + to_pair(get(is, 1)) * 16
      + to_pair(get(is, 2)) * 4 + to_pair(get(is, 3))

----------------------------------------------------------------------------
(* Loader (main)                                                           *)

\* variant of pop: only a trailing newline is removed
pop_OnlyNewline(v) ==
    IF Len(v) > 0 /\ v[Len(v)] = ChNewline THEN SubSeq(v, 1, Len(v) - 1) ELSE v

\* Vec::pop: drops the last element, a no-op on an empty vector
pop(v) == IF Len(v) = 0 THEN v ELSE SubSeq(v, 1, Len(v) - 1)

\* number of chunks produced by .chunks(4)
NumChunks(n) == (n + 3) \div 4

\* .chunks(4).map(to_byte).collect(): the packed image, 0-indexed
pack(is) ==
    [j \in 0..(NumChunks(Len(is)) - 1) |->
        to_byte(SubSeq(is, 4 * j + 1,
                       IF 4 * j + 4 <= Len(is) THEN 4 * j + 4 ELSE Len(is)))]

VecLen(v) == Cardinality(DOMAIN v)

\* variant of TooLarge: a full 256-byte image is rejected as well
TooLarge_OffByOne(len) == len >= MemSize

\* if mem.len() > 256 { panic!(...) }
TooLarge(len) == len > MemSize

\* Vec::resize(n, fill)
resize(v, n, fill) ==
    [j \in 0..(n - 1) |-> IF j \in DOMAIN v THEN v[j] ELSE fill]

EmptyVec == [j \in {} |-> 0]

NoOpen == << >>

\* the codec is not under test during a run of the program
CodecIdle ==
    /\ c_op = "idle"
    /\ c_seq = << >>
    /\ c_byte = 0
    /\ c_out = << >>

Init ==
    /\ path \in FileNames
    /\ overflow_checks \in BOOLEAN
    /\ step \in 0..MaxDebug
    /\ jumps = 0 /\ continues = 0 /\ printed = 0
    /\ CodecIdle
    /\ pc = "load"
    /\ err = "none"
    /\ mem = EmptyVec
    /\ ins = from_byte(0)
    /\ dp = 0 /\ ipl = 0 /\ iph = 0 /\ rpl = 0 /\ rph = 0
    /\ cycles = 0
    /\ lastOpen = NoOpen
    /\ executed = [inst |-> "None", at |-> <<0, 0>>]

Load ==
    /\ pc = "load"
    /\ LET in_bytes == pop(Files(path))
       IN IF \E i \in 1..Len(in_bytes) : ~ValidChar(in_bytes[i])
          THEN /\ pc' = "panic"
               /\ err' = "InvalidInstructionChar"
               /\ mem' = mem
          ELSE LET packed == pack(from_chars(in_bytes))
               IN IF TooLarge(VecLen(packed))
                  THEN /\ pc' = "panic"
                       /\ err' = "ProgramTooLarge"
                       /\ mem' = packed
                  ELSE /\ pc' = "fetch"
                       /\ err' = err
                       /\ mem' = resize(packed, MemSize, 0)
    /\ UNCHANGED <<path, overflow_checks, step, ins, dp, ipl, iph, rpl, rph,
                   cycles, lastOpen, executed, jumps, observer, codec>>

----------------------------------------------------------------------------
(* Execution engine (execute)                                              *)

\* top of the inner loop: the observer is called before the instruction
\* when the debug level asks for it (step > 2 prints, step > 1 blocks)
InnerTop == IF step > 2 \/ step > 1 THEN "observe" ELSE "exec"

\* variant of Fetch: the halt check fires one byte early
Fetch_HaltsEarly ==
    /\ pc = "fetch"
    /\ IF ipl = 255
       THEN /\ pc' = "halted"
            /\ UNCHANGED <<err, ins>>
       ELSE IF ipl \notin DOMAIN mem
       THEN /\ pc' = "panic"
            /\ err' = "IndexOutOfBounds"
            /\ UNCHANGED ins
       ELSE /\ pc' = InnerTop
            /\ ins' = from_byte(mem[ipl])
            /\ UNCHANGED err
    /\ UNCHANGED <<path, overflow_checks, step, mem, dp, ipl, iph, rpl, rph,
                   cycles, lastOpen, executed, jumps, observer, codec>>

\* outer loop head: halt check, then the group of memory[ipl] is decoded
Fetch ==
    /\ pc = "fetch"
    /\ IF ipl = 256
       THEN /\ pc' = "halted"
            /\ UNCHANGED <<err, ins>>
       ELSE IF ipl \notin DOMAIN mem
       THEN /\ pc' = "panic"
            /\ err' = "IndexOutOfBounds"
            /\ UNCHANGED ins
       ELSE /\ pc' = InnerTop
            /\ ins' = from_byte(mem[ipl])
            /\ UNCHANGED err
    /\ UNCHANGED <<path, overflow_checks, step, mem, dp, ipl, iph, rpl, rph,
                   cycles, lastOpen, executed, jumps, observer, codec>>

\* variant of inst: the group is decoded again for every instruction
inst_Refetched == from_byte(mem[ipl])[iph]

\* let inst = ins[iph]
inst == ins[iph]

\* variant of ReturnPos: the carry of rph into rpl is lost
ReturnPos_NoCarry(l, h) == <<l, (h + 1) % 4>>

\* rpl = ipl; rph = iph + 1; if rph > 3 { rph = 0; rpl += 1 }
ReturnPos(l, h) == IF h + 1 > 3 THEN <<l + 1, 0>> ELSE <<l, h + 1>>

\* variant of AdvancePos: iph is not reset when it carries
AdvancePos_NoReset(l, h) == IF h + 1 > 3 THEN <<l + 1, h + 1>> ELSE <<l, h + 1>>

\* iph += 1; if iph > 3 { iph = 0; ipl += 1; break }
AdvancePos(l, h) == IF h + 1 > 3 THEN <<l + 1, 0>> ELSE <<l, h + 1>>

\* variant of Advance: the observer is only called for the first
\* instruction of a byte
Advance_SkipsObserver ==
    /\ ipl' = AdvancePos(ipl, iph)[1]
    /\ iph' = AdvancePos(ipl, iph)[2]
    /\ pc' = IF iph + 1 > 3 THEN "fetch" ELSE "exec"

\* the inner loop is left (break) exactly when iph carries into ipl
Advance ==
    /\ ipl' = AdvancePos(ipl, iph)[1]
    /\ iph' = AdvancePos(ipl, iph)[2]
    /\ pc' = IF iph + 1 > 3 THEN "fetch" ELSE InnerTop

\* print_state indexes mem[ipl], mem[dp] and mem[rpl]
PrintStateFaults ==
    ipl \notin DOMAIN mem \/ dp \notin DOMAIN mem \/ rpl \notin DOMAIN mem

\* if step > 2 { print_state(..) }  if step > 1 { stdin.read(..) }: the
\* step completes when the blocking read returns control
Observe ==
    /\ pc = "observe"
    /\ IF step > 2 /\ PrintStateFaults
       THEN /\ pc' = "panic"
            /\ err' = "IndexOutOfBounds"
            /\ UNCHANGED <<continues, printed>>
       ELSE /\ printed' = IF step > 2 THEN printed + 1 ELSE printed
            /\ continues' = IF step > 1 THEN continues + 1 ELSE continues
            /\ pc' = "exec"
            /\ UNCHANGED err
    /\ UNCHANGED <<path, overflow_checks, step, mem, ins, dp, ipl, iph, rpl,
                   rph, cycles, lastOpen, executed, jumps, codec>>

\* one more instruction has been executed: inst at (ipl, iph)
Executed ==
    /\ cycles' = cycles + 1
    /\ executed' = [inst |-> inst, at |-> <<ipl, iph>>]

\* an indexing or arithmetic panic aborts the process mid-instruction
Panic(e) ==
    /\ pc' = "panic"
    /\ err' = e
    /\ UNCHANGED <<mem, dp, ipl, iph, rpl, rph, cycles, lastOpen, executed,
                   jumps>>

\* variant of ExecLoopOpen: an outstanding return pointer is kept, as a
\* bracket-matching machine would keep the outer loop's
ExecLoopOpen_KeepsOuter ==
    /\ pc = "exec" /\ cycles < MaxCycles
    /\ inst = "LoopOpen"
    /\ rpl' = IF lastOpen = NoOpen THEN ReturnPos(ipl, iph)[1] ELSE rpl
    /\ rph' = IF lastOpen = NoOpen THEN ReturnPos(ipl, iph)[2] ELSE rph
    /\ lastOpen' = <<ipl, iph>>
    /\ Advance
    /\ Executed
    /\ UNCHANGED <<path, overflow_checks, step, err, mem, ins, dp, jumps,
                   observer, codec>>

ExecLoopOpen ==
    /\ pc = "exec" /\ cycles < MaxCycles
    /\ inst = "LoopOpen"
    /\ rpl' = ReturnPos(ipl, iph)[1]
    /\ rph' = ReturnPos(ipl, iph)[2]
    /\ lastOpen' = <<ipl, iph>>
    /\ Advance
    /\ Executed
    /\ UNCHANGED <<path, overflow_checks, step, err, mem, ins, dp, jumps,
                   observer, codec>>

\* variant of LoopCloseJumps: the loop condition is inverted
LoopCloseJumps_Inverted(m, d) == m[d] = 0

\* if mem[dp] != 0
LoopCloseJumps(m, d) == m[d] # 0

\* variant of ExecLoopClose: the jump does not break, so the pointer
\* advance is applied on top of it
ExecLoopClose_JumpAdvances ==
    /\ pc = "exec" /\ cycles < MaxCycles
    /\ inst = "LoopClose"
    /\ IF dp \notin DOMAIN mem
       THEN Panic("IndexOutOfBounds")
       ELSE IF LoopCloseJumps(mem, dp)
       THEN /\ ipl' = AdvancePos(rpl, rph)[1]
            /\ iph' = AdvancePos(rpl, rph)[2]
            /\ pc' = "fetch"
            /\ jumps' = jumps + 1
            /\ Executed
            /\ UNCHANGED <<err, mem, dp, rpl, rph, lastOpen>>
       ELSE /\ Advance
            /\ Executed
            /\ UNCHANGED <<err, mem, dp, rpl, rph, lastOpen, jumps>>
    /\ UNCHANGED <<path, overflow_checks, step, ins, observer, codec>>

\* variant of ExecLoopClose: without an executed LoopOpen there is nothing
\* to return to and the close falls through
ExecLoopClose_NeedsOpen ==
    /\ pc = "exec" /\ cycles < MaxCycles
    /\ inst = "LoopClose"
    /\ IF dp \notin DOMAIN mem
       THEN Panic("IndexOutOfBounds")
       ELSE IF LoopCloseJumps(mem, dp) /\ lastOpen # NoOpen
       THEN /\ ipl' = rpl
            /\ iph' = rph
            /\ pc' = "fetch"
            /\ jumps' = jumps + 1
            /\ Executed
            /\ UNCHANGED <<err, mem, dp, rpl, rph, lastOpen>>
       ELSE /\ Advance
            /\ Executed
            /\ UNCHANGED <<err, mem, dp, rpl, rph, lastOpen, jumps>>
    /\ UNCHANGED <<path, overflow_checks, step, ins, observer, codec>>

ExecLoopClose ==
    /\ pc = "exec" /\ cycles < MaxCycles
    /\ inst = "LoopClose"
    /\ IF dp \notin DOMAIN mem
       THEN Panic("IndexOutOfBounds")
       ELSE IF LoopCloseJumps(mem, dp)
       THEN /\ ipl' = rpl
            /\ iph' = rph
            /\ pc' = "fetch"
            /\ jumps' = jumps + 1
            /\ Executed
            /\ UNCHANGED <<err, mem, dp, rpl, rph, lastOpen>>
       ELSE /\ Advance
            /\ Executed
            /\ UNCHANGED <<err, mem, dp, rpl, rph, lastOpen, jumps>>
    /\ UNCHANGED <<path, overflow_checks, step, ins, observer, codec>>

\* u8 addition that did not panic
WrapInc(v) == (v + 1) % 256

\* variant of ExecIncrement: the cell under the instruction pointer is
\* incremented instead of the cell under dp
ExecIncrement_AtIpl ==
    /\ pc = "exec" /\ cycles < MaxCycles
    /\ inst = "Increment"
    /\ IF ipl \notin DOMAIN mem
       THEN Panic("IndexOutOfBounds")
       ELSE IF overflow_checks /\ mem[ipl] + 1 > 255
       THEN Panic("AddOverflow")
       ELSE /\ mem' = [mem EXCEPT ![ipl] = WrapInc(mem[ipl])]
            /\ Advance
            /\ Executed
            /\ UNCHANGED <<err, dp, rpl, rph, lastOpen, jumps>>
    /\ UNCHANGED <<path, overflow_checks, step, ins, observer, codec>>

\* mem[dp] += 1 panics on overflow when the build checks overflow
ExecIncrement ==
    /\ pc = "exec" /\ cycles < MaxCycles
    /\ inst = "Increment"
    /\ IF dp \notin DOMAIN mem
       THEN Panic("IndexOutOfBounds")
       ELSE IF overflow_checks /\ mem[dp] + 1 > 255
       THEN Panic("AddOverflow")
       ELSE /\ mem' = [mem EXCEPT ![dp] = WrapInc(mem[dp])]
            /\ Advance
            /\ Executed
            /\ UNCHANGED <<err, dp, rpl, rph, lastOpen, jumps>>
    /\ UNCHANGED <<path, overflow_checks, step, ins, observer, codec>>

ExecShiftRight ==
    /\ pc = "exec" /\ cycles < MaxCycles
    /\ inst = "ShiftRight"
    /\ dp' = dp + 1
    /\ Advance
    /\ Executed
    /\ UNCHANGED <<path, overflow_checks, step, err, mem, ins, rpl, rph,
                   lastOpen, jumps, observer, codec>>

Next ==
    \/ Load
    \/ Fetch
    \/ Observe
    \/ ExecLoopOpen
    \/ ExecLoopClose
    \/ ExecIncrement
    \/ ExecShiftRight

Spec == Init /\ [][Next]_vars

----------------------------------------------------------------------------
(* The codec on its own: to_byte on every group of 1 to 4 instructions,    *)
(* from_byte on every byte.                                                *)

\* instructions per packed byte (.chunks(4), the 4 pairs of from_byte)
GroupSize == 4

\* the groups .chunks(4) can hand to to_byte
Groups ==
    UNION {[1..n -> Instruction] : n \in 1..GroupSize}

CodecInit ==
    /\ path = "empty" /\ overflow_checks = FALSE /\ step = 0
    /\ pc = "codec" /\ err = "none" /\ mem = EmptyVec /\ ins = from_byte(0)
    /\ dp = 0 /\ ipl = 0 /\ iph = 0 /\ rpl = 0 /\ rph = 0
    /\ cycles = 0 /\ lastOpen = NoOpen
    /\ executed = [inst |-> "None", at |-> <<0, 0>>]
    /\ jumps = 0 /\ continues = 0 /\ printed = 0
    /\ c_op = "start"
    /\ c_out = << >>
    /\ \/ c_seq \in Groups /\ c_byte = 0
       \/ c_seq = << >> /\ c_byte \in 0..255

engine == <<path, overflow_checks, step, pc, err, mem, ins,
            dp, ipl, iph, rpl, rph, cycles, lastOpen, executed,
            jumps, continues, printed>>

\* Instruction::to_byte(group)
EncodeGroup ==
    /\ c_op = "start" /\ c_seq # << >>
    /\ c_byte' = to_byte(c_seq)
    /\ c_op' = "encoded"
    /\ UNCHANGED <<c_seq, c_out, engine>>

\* Instruction::from_byte(byte), on a raw byte or on an encoded group
DecodeByte ==
    /\ \/ c_op = "start" /\ c_seq = << >> /\ c_op' = "decoded"
       \/ c_op = "encoded" /\ c_op' = "roundtrip"
    /\ c_out' = from_byte(c_byte)
    /\ UNCHANGED <<c_seq, c_byte, engine>>

CodecNext == EncodeGroup \/ DecodeByte

CodecSpec == CodecInit /\ [][CodecNext]_vars

TypeOK ==
    /\ path \in FileNames
    /\ pc \in {"load", "fetch", "observe", "exec", "halted", "panic"}
    /\ step \in 0..MaxDebug
    /\ \A a \in DOMAIN mem : mem[a] \in 0..255
    /\ dp \in Nat /\ ipl \in Nat /\ iph \in Nat /\ rpl \in Nat /\ rph \in Nat
    /\ cycles \in 0..MaxCycles

----------------------------------------------------------------------------
(* Properties                                                              *)

\* a step that completes one engine cycle
Cycle == cycles' = cycles + 1

\* "the pointer advanced by one slot" as the documentation words it
OneSlotOn(l, h) == IF h < 3 THEN <<l, h + 1>> ELSE <<l + 1, 0>>

\* C1: a cycle executing LoopClose ends at (rpl, rph) exactly when
\* memory[dp] != 0 and one slot further when memory[dp] = 0; memory, dp,
\* rpl and rph are unchanged in both cases.
C1_LoopClose ==
    [][ (pc = "exec" /\ inst = "LoopClose" /\ Cycle) =>
          /\ mem[dp] # 0 => <<ipl', iph'>> = <<rpl, rph>>
          /\ mem[dp] = 0 => <<ipl', iph'>> = OneSlotOn(ipl, iph)
          /\ mem' = mem /\ dp' = dp /\ rpl' = rpl /\ rph' = rph ]_vars

\* a LoopClose at another position has just jumped to the return pointer
C1_Witness ==
    /\ executed.inst = "LoopClose" /\ executed.at # <<rpl, rph>>
    /\ pc = "fetch" /\ <<ipl, iph>> = <<rpl, rph>>
    /\ <<ipl, iph>> # OneSlotOn(executed.at[1], executed.at[2])
    /\ mem[dp] # 0

\* C2: a cycle executing LoopOpen at (ipl, iph) sets the return pointer to
\* the next position, (ipl, iph + 1) or (ipl + 1, 0), whatever the return
\* pointer and memory[dp] were.
C2_LoopOpen ==
    [][ (pc = "exec" /\ inst = "LoopOpen" /\ Cycle) =>
          <<rpl', rph'>> = OneSlotOn(ipl, iph) ]_vars

\* a LoopOpen in slot 3 has carried the return pointer into the next byte,
\* with a nonzero cell under dp
C2_Witness ==
    /\ executed.inst = "LoopOpen" /\ executed.at[2] = 3
    /\ <<rpl, rph>> = <<executed.at[1] + 1, 0>>
    /\ dp \in DOMAIN mem /\ mem[dp] # 0

\* C3: the instruction executed in a cycle is the one that the current
\* contents of memory[ipl] encode at slot iph.
C3_FetchPerInstruction ==
    pc = "exec" => inst = from_byte(mem[ipl])[iph]

\* C4: dp stays in 0..255 and no access to memory[dp] faults.
C4_DpWraps ==
    dp \in 0..255 /\ err # "IndexOutOfBounds"

\* C5: Increment on a cell holding 255 leaves 0 and the run goes on; on any
\* other value v it leaves v + 1.
C5_IncrementWraps ==
    [][ (pc = "exec" /\ inst = "Increment" /\ dp \in DOMAIN mem
           /\ cycles < MaxCycles) =>
          /\ pc' # "panic"
          /\ mem'[dp] = IF mem[dp] = 255 THEN 0 ELSE mem[dp] + 1 ]_vars

\* a cycle in which a LoopClose takes its jump
CloseJump ==
    pc = "exec" /\ inst = "LoopClose" /\ Cycle /\ dp \in DOMAIN mem
      /\ mem[dp] # 0

\* the outer LoopClose of [[+]]: byte 1, slot 0
OuterClose == path = "nested" /\ <<ipl, iph>> = <<1, 0>>

\* C6 as stated: whenever the outer LoopClose of [[+]] is executed with
\* memory[dp] != 0, control transfers to byte 0, slot 2.
C6_OuterCloseAlways ==
    [][ (OuterClose /\ CloseJump) => <<ipl', iph'>> = <<0, 2>> ]_vars

\* C6 (amended): while the inner LoopOpen (byte 0, slot 1) is the most
\* recently executed LoopOpen, the outer LoopClose of [[+]] jumps to byte 0,
\* slot 2 and not to slot 1; and every LoopClose jump targets the position
\* after the most recently executed LoopOpen.
C6_SingleSlot ==
    [][ /\ (OuterClose /\ CloseJump /\ lastOpen = <<0, 1>>) =>
              <<ipl', iph'>> = <<0, 2>>
        /\ (CloseJump /\ lastOpen # NoOpen) =>
              <<ipl', iph'>> = OneSlotOn(lastOpen[1], lastOpen[2]) ]_vars

\* the outer LoopClose has jumped to the position after the inner LoopOpen
C6_Witness ==
    /\ path = "nested"
    /\ executed = [inst |-> "LoopClose", at |-> <<1, 0>>]
    /\ lastOpen = <<0, 1>>
    /\ pc = "fetch" /\ <<ipl, iph>> = <<0, 2>>

\* the final state of the run of the program "+"
C7_PlusFinal ==
    /\ ipl = 256
    /\ mem[0] = to_byte(<<"Increment">>) + 1
    /\ \A a \in 1..255 : mem[a] = 0

\* the run is on its way to a halt within n cycles: it has not panicked, has
\* executed at most n instructions, and its next step is enabled
HaltsWithin(n) ==
    /\ pc # "panic"
    /\ cycles <= n
    /\ pc # "halted" => ENABLED Next

\* C7: the run of "+" terminates with ipl = 256, memory[0] one more than
\* its loaded value and every other cell 0.
C7_PlusTerminates ==
    path = "plus" =>
      /\ HaltsWithin(256 * 4)
      /\ pc = "halted" => C7_PlusFinal

\* the run of "+" has halted after its one increment
C7_Witness ==
    /\ path = "plus" /\ pc = "halted" /\ ipl = 256
    /\ mem[0] = 129 /\ cycles = 1024

EmptyProgram == path \in {"empty", "newline"}

\* C9: the run on the empty program halts after exactly 1024 executed
\* instructions with ipl = 256 and memory all zero; the engine halts if and
\* only if ipl = 256.
C9_EmptyProgramHalts ==
    /\ EmptyProgram =>
         /\ HaltsWithin(256 * 4)
         /\ pc = "halted" => cycles = 256 * 4
         /\ pc # "load" => \A a \in 0..255 : mem[a] = 0
    /\ pc = "halted" => ipl = 256
    /\ ipl = 256 => pc \in {"fetch", "halted"}
    /\ (pc = "fetch" /\ ipl = 256) => ENABLED (Next /\ pc' = "halted")
    /\ (pc = "fetch" /\ ipl = 256) => ~ENABLED (Next /\ pc' # "halted")

\* the empty program has run to its halt
C9_Witness ==
    EmptyProgram /\ pc = "halted" /\ cycles = 1024 /\ executed.at = <<255, 3>>

\* the number of bytes of f that belong to the alphabet
CountInstructions(f) == Cardinality({i \in 1..Len(f) : ValidChar(f[i])})

\* f is empty, or alphabet bytes followed by the terminator
WellFormed(f) ==
    \A i \in 1..Len(f) :
       IF i = Len(f) THEN f[i] = ChNewline ELSE ValidChar(f[i])

\* the instruction that byte a, slot k of the image of f stands for, n being
\* the number of instructions of f
SourceInst(f, n, a, k) ==
    IF 4 * a + k + 1 <= n THEN char_to_inst(f[4 * a + k + 1]) ELSE "LoopOpen"

\* C10: loading n instructions fails with ProgramTooLarge, with no
\* instruction executed, iff n > 1024; otherwise the engine starts on 256
\* bytes: ceil(n/4) packed bytes, then zeros.
C10_ProgramTooLarge ==
    LET f == Files(path)
        n == CountInstructions(f)
    IN (pc # "load" /\ WellFormed(f)) =>
         /\ (err = "ProgramTooLarge") <=> (n > 1024)
         /\ (n > 1024) => (pc = "panic" /\ cycles = 0
                             /\ executed.inst = "None")
         /\ (n <= 1024) => DOMAIN mem = 0..255
         /\ (n <= 1024 /\ cycles = 0) =>
              /\ pc \in {"fetch", "observe", "exec"}
              /\ \A a \in 0..255 :
                   /\ a >= (n + 3) \div 4 => mem[a] = 0
                   /\ from_byte(mem[a]) = [k \in 0..3 |-> SourceInst(f, n, a, k)]

\* a file of more than 1024 instructions has been refused
C10_Witness ==
    /\ WellFormed(Files(path)) /\ CountInstructions(Files(path)) = 1025
    /\ pc = "panic" /\ err = "ProgramTooLarge" /\ cycles = 0

\* the language's alphabet: [ ] + >
Alphabet == {91, 93, 43, 62}

\* a source with its last byte (the terminator) taken off
Stripped(f) == [i \in 1..(Len(f) - 1) |-> f[i]]

\* C11: a byte outside the alphabet anywhere in the stripped source makes
\* the load fail with InvalidInstructionChar before any instruction (or
\* observer call) happens; otherwise each byte is decoded, in order, to its
\* instruction.
C11_InvalidInstructionChar ==
    LET src == Stripped(Files(path))
        bad == \E i \in 1..Len(src) : src[i] \notin Alphabet
    IN pc # "load" =>
         /\ bad <=> (err = "InvalidInstructionChar")
         /\ bad => /\ pc = "panic" /\ cycles = 0 /\ executed.inst = "None"
                   /\ continues = 0 /\ printed = 0
         /\ (~bad /\ Len(src) <= 1024 /\ cycles = 0) =>
              \A a \in 0..255 :
                from_byte(mem[a]) =
                  [k \in 0..3 |-> SourceInst(src, Len(src), a, k)]

\* a source whose first byte is an instruction has been refused whole
C11_Witness ==
    /\ pc = "panic" /\ err = "InvalidInstructionChar" /\ cycles = 0
    /\ Files(path)[1] \in Alphabet

\* the 2-bit code of an instruction
CodeOf(i) ==
    CASE i = "LoopOpen" -> 0 [] i = "LoopClose" -> 1
      [] i = "Increment" -> 2 [] i = "ShiftRight" -> 3

\* the 2-bit field of byte b at slot k, slot 0 being bits 7-6
Field(b, k) == (b \div (4 ^ (3 - k))) % 4

\* C12: decoding the byte of a group of 1 to 4 instructions gives exactly 4
\* instructions: the group in order (instruction 0 in bits 7-6), then
\* LoopOpen for the missing slots.
C12_RoundTrip ==
    /\ c_op \in {"encoded", "roundtrip"} =>
         /\ c_byte \in 0..255
         /\ \A k \in 0..3 :
              Field(c_byte, k) =
                IF k < Len(c_seq) THEN CodeOf(c_seq[k + 1]) ELSE 0
    /\ c_op = "roundtrip" =>
         /\ DOMAIN c_out = 0..3
         /\ \A k \in 0..3 :
              c_out[k] = IF k < Len(c_seq) THEN c_seq[k + 1] ELSE "LoopOpen"

\* a group of fewer than 4 instructions, not all LoopOpen, has made the trip
C12_Witness ==
    /\ c_op = "roundtrip" /\ Len(c_seq) \in 1..3
    /\ c_out[0] = "ShiftRight" /\ c_out[Len(c_seq) - 1] = "LoopClose"
    /\ c_out[3] = "LoopOpen"

\* C16: from_byte returns, for every byte 0..255, exactly 4 instructions,
\* 00 -> LoopOpen, 01 -> LoopClose, 10 -> Increment, 11 -> ShiftRight, and
\* never reaches its panic arm.
C16_FromByteTotal ==
    c_op = "decoded" =>
      /\ DOMAIN c_out = 0..3
      /\ \A k \in 0..3 :
           /\ c_out[k] \in Instruction
           /\ c_out[k] # "Panic"
           /\ CodeOf(c_out[k]) = Field(c_byte, k)

\* the byte 0b00011011 has been decoded to [ ] + >
C16_Witness ==
    /\ c_op = "decoded" /\ c_byte = 27
    /\ c_out = [k \in 0..3 |-> CASE k = 0 -> "LoopOpen" [] k = 1 -> "LoopClose"
                                 [] k = 2 -> "Increment" [] k = 3 -> "ShiftRight"]

\* C13: a cycle executing LoopOpen, LoopClose or ShiftRight leaves every
\* memory cell unchanged; a cycle executing Increment changes the cell
\* memory[dp] and no other, and leaves dp, rpl and rph unchanged.
C13_IncrementOnlyMutator ==
    [][ (pc = "exec" /\ Cycle) =>
          /\ inst \in {"LoopOpen", "LoopClose", "ShiftRight"} => mem' = mem
          /\ inst = "Increment" =>
               /\ DOMAIN mem' = DOMAIN mem
               /\ \A a \in DOMAIN mem : (mem'[a] # mem[a]) <=> (a = dp)
               /\ dp' = dp /\ rpl' = rpl /\ rph' = rph ]_vars

\* an Increment has changed a cell away from the byte it was fetched from
C13_Witness ==
    /\ executed.inst = "Increment" /\ dp \in DOMAIN mem
    /\ dp # executed.at[1] /\ mem[dp] = 1

\* stepping is on: the engine blocks on its input before each instruction
Stepping == step > 1

\* C14: with stepping on, every executed instruction has its own observer
\* continuation, returned before it: the observer's return changes nothing
\* of the machine, no instruction takes effect without it, and it releases
\* one instruction only.
C14_OneContinuationPerInstruction ==
    [][ Stepping =>
          /\ Cycle => (continues = cycles + 1 /\ continues' = continues)
          /\ continues' # continues =>
               /\ continues = cycles /\ continues' = continues + 1
               /\ UNCHANGED <<mem, dp, ipl, iph, rpl, rph, cycles>>
          /\ (pc # "load" /\ <<mem, dp, ipl, iph, rpl, rph>>'
                               # <<mem, dp, ipl, iph, rpl, rph>>) => Cycle
          /\ continues' - cycles' \in {0, 1} ]_vars

\* the engine is suspended before an instruction, the earlier ones done
C14_Witness ==
    /\ Stepping /\ pc = "observe"
    /\ cycles >= 2 /\ continues = cycles /\ executed.inst # "None"

\* C15: -d (count 1) blocks before each instruction, -dd (count 2) also
\* prints the state at each step, and count 0 never blocks or prints.
C15_DebugLevels ==
    /\ step = 0 => (continues = 0 /\ printed = 0)
    /\ step = 1 => printed = 0
    /\ (step >= 1 /\ pc = "exec") => continues = cycles + 1
    /\ (step >= 2 /\ pc = "exec") => printed = cycles + 1

\* the loader has handed the memory to the engine
EngineStarted ==
    pc # "load" /\ err \notin {"InvalidInstructionChar", "ProgramTooLarge"}

\* C17: every cycle that takes no LoopClose jump advances the instruction
\* pointer by one slot, so that a run without a jump is at slot number
\* `cycles` and halts after at most 1024 cycles.
C17_AdvanceThenHalt ==
    (EngineStarted /\ jumps = 0) =>
      /\ 4 * ipl + iph = cycles
      /\ iph \in 0..3
      /\ HaltsWithin(256 * 4)

\* C18: iph and rph stay in 0..3, ipl and rpl in 0..256; ipl = 256 comes
\* with iph = 0 and is followed at once by the halt; no LoopClose jump leads
\* to ipl = 256; the byte memory[ipl] that is fetched always exists.
C18_RegisterRanges ==
    /\ [](/\ iph \in 0..3 /\ rph \in 0..3
          /\ ipl \in 0..256 /\ rpl \in 0..256
          /\ ipl = 256 => (iph = 0 /\ pc \in {"fetch", "halted"})
          /\ (EngineStarted /\ ipl # 256) => ipl \in DOMAIN mem)
    /\ [][ /\ (pc = "fetch" /\ ipl = 256) => pc' = "halted"
           /\ (pc = "fetch" /\ ipl # 256) => pc' # "panic"
           /\ CloseJump => ipl' # 256 ]_vars

\* the run has halted at ipl = 256 with the return pointer at its largest
C18_Witness ==
    pc = "halted" /\ ipl = 256 /\ iph = 0 /\ rpl = 256 /\ rph = 0

\* C19: a LoopClose on a nonzero cell, before any LoopOpen has been
\* executed, jumps to byte 0, slot 0: it neither faults nor falls through.
C19_CloseBeforeOpen ==
    [][ (pc = "exec" /\ inst = "LoopClose" /\ lastOpen = NoOpen
           /\ dp \in DOMAIN mem /\ mem[dp] # 0) =>
          (Cycle /\ pc' = "fetch" /\ <<ipl', iph'>> = <<0, 0>>) ]_vars

\* a LoopClose away from the start has restarted the program
C19_Witness ==
    /\ executed.inst = "LoopClose" /\ executed.at # <<0, 0>>
    /\ lastOpen = NoOpen
    /\ pc = "fetch" /\ <<ipl, iph>> = <<0, 0>>

====
